---- MODULE Spec2Model ----
(***************************************************************************)
(* Model of the go-mailnow client: request validation (validation.go),     *)
(* HTTP transport and response classification (http.go), the error kinds   *)
(* (errors.go) and the SendEmail facade (client.go).                        *)
(*                                                                         *)
(* Strings that the code inspects character by character (email addresses) *)
(* are sequences of one-character strings.  Messages are sequences of      *)
(* tokens, so that concatenation (+, fmt.Sprintf) is sequence              *)
(* concatenation.  The net/http client, the context and the remote server  *)
(* are the environment: their steps are separate actions.                  *)
(***************************************************************************)
EXTENDS Integers, Sequences, FiniteSets, TLC

VARIABLES
    arg,        \* argument of the function that is called directly
    out,        \* what that function returned
    client,     \* the *Client that NewClient returned (NilClient for nil)
    req,        \* the *EmailRequest passed to SendEmail (NilRequest for nil)
    ctx,        \* state of the caller's context
    firedAt,    \* position of the call at which the context fired
    pc,         \* position of the SendEmail call
    wire,       \* the HTTP request handed to client.Do, NoWire before
    doCalls,    \* number of client.Do invocations of this call
    served,     \* number of requests the server completed
    httpResp,   \* the *http.Response returned by client.Do
    bodyOpen,   \* TRUE while a response body is open (not yet closed)
    readBody,   \* bytes returned by io.ReadAll
    handled,    \* the (bytes, error) pair HandleResponse returned
    retResp,    \* first return value of SendEmail
    retErr,     \* second return value of SendEmail
    calls       \* the SendEmail calls that run concurrently on client

vars == <<calls, arg, out, client, req, ctx, firedAt, pc, wire, doCalls, served, httpResp, bodyOpen,
          readBody, handled, retResp, retErr>>

----------------------------------------------------------------------------
(* Program constants *)

APIBaseURL == "https://api.mailnow.xyz"
EmailSendEndpoint == "/v1/email/send"
APIKeyPrefixLive == <<"m", "n", "_", "l", "i", "v", "e", "_">>
APIKeyPrefixTest == <<"m", "n", "_", "t", "e", "s", "t", "_">>
RequestTimeout == 30

----------------------------------------------------------------------------
(* Error model (errors.go) *)

NoCause == [kind |-> "nil", msg |-> <<>>]

\* a failure produced by the standard library (encoding/json, net/http,
\* io, context), not by one of the five constructors
RawError(what) == [kind |-> "raw", msg |-> <<what>>]

NilError == [kind |-> "nil", msg |-> <<>>, cause |-> NoCause]

NewValidationError(message, err) ==
    [kind |-> "ValidationError", msg |-> message, cause |-> err]

\* NewAuthError copied from NewValidationError without changing the type
NewAuthErrorOfWrongType(message, err) ==
    [kind |-> "ValidationError", msg |-> message, cause |-> err]

NewAuthError(message, err) ==
    [kind |-> "AuthError", msg |-> message, cause |-> err]

NewRateLimitError(message, err) ==
    [kind |-> "RateLimitError", msg |-> message, cause |-> err]

NewServerError(message, err) ==
    [kind |-> "ServerError", msg |-> message, cause |-> err]

NewConnectionError(message, err) ==
    [kind |-> "ConnectionError", msg |-> message, cause |-> err]

ErrorKinds ==
    {"ValidationError", "AuthError", "RateLimitError", "ServerError",
     "ConnectionError"}

\* the cause as the wrapping error stores it: kind and message of the cause
AsCause(e) == [kind |-> e.kind, msg |-> e.msg]

\* e.Err != nil
HasCause(e) == "cause" \in DOMAIN e /\ e.cause # NoCause

\* Unwrap that forgets the cause
UnwrapNothing(e) == NoCause

\* Unwrap of each kind, which is Error.Unwrap: the cause, nil when none
Unwrap(e) == IF "cause" \in DOMAIN e THEN e.cause ELSE NoCause

\* Error of each kind, which is Error.Error: "<message>: <cause>" with a
\* cause, else the message
RECURSIVE ErrorString(_)
ErrorString(e) ==
    IF HasCause(e) THEN e.msg \o <<": ">> \o ErrorString(e.cause) ELSE e.msg

\* errors.As(e, &target) for a target of the given kind: e or an error of
\* its Unwrap chain is of that kind
RECURSIVE As(_, _)
As(e, kind) ==
    \/ e.kind = kind
    \/ Unwrap(e) # NoCause /\ As(Unwrap(e), kind)

\* the constructor of the kind
Construct(kind, message, err) ==
    CASE kind = "ValidationError" -> NewValidationError(message, err)
      [] kind = "AuthError" -> NewAuthError(message, err)
      [] kind = "RateLimitError" -> NewRateLimitError(message, err)
      [] kind = "ServerError" -> NewServerError(message, err)
      [] kind = "ConnectionError" -> NewConnectionError(message, err)

----------------------------------------------------------------------------
(* Validation engine (validation.go) *)

Letters == {"a", "b", "c"}
Digits == {"1"}
LocalChars == Letters \cup Digits \cup {".", "_", "%", "+", "-"}
DomainChars == Letters \cup Digits \cup {".", "-"}

AllIn(s, lo, hi, set) == \A i \in lo..hi : s[i] \in set

\* the pattern with a top-level label of one or more letters
emailRegexShortLabel(s) ==
    \E at \in 1..Len(s) : \E dot \in 1..Len(s) :
        /\ s[at] = "@"
        /\ at >= 2
        /\ AllIn(s, 1, at - 1, LocalChars)
        /\ dot >= at + 2
        /\ AllIn(s, at + 1, dot - 1, DomainChars)
        /\ s[dot] = "."
        /\ Len(s) >= dot + 1
        /\ AllIn(s, dot + 1, Len(s), Letters)

\* ^[a-zA-Z0-9._%+\-]+@[a-zA-Z0-9.\-]+\.[a-zA-Z]{2,}$
emailRegex(s) ==
    \E at \in 1..Len(s) : \E dot \in 1..Len(s) :
        /\ s[at] = "@"
        /\ at >= 2
        /\ AllIn(s, 1, at - 1, LocalChars)
        /\ dot >= at + 2
        /\ AllIn(s, at + 1, dot - 1, DomainChars)
        /\ s[dot] = "."
        /\ Len(s) >= dot + 2
        /\ AllIn(s, dot + 1, Len(s), Letters)

\* strings.HasPrefix
HasPrefix(s, prefix) ==
    Len(s) >= Len(prefix) /\ SubSeq(s, 1, Len(prefix)) = prefix

\* ValidateAPIKey that only knows the live prefix
ValidateAPIKeyLiveOnly(apiKey) ==
    IF apiKey = <<>>
    THEN NewValidationError(<<"API key cannot be empty">>, NoCause)
    ELSE IF ~HasPrefix(apiKey, APIKeyPrefixLive)
    THEN NewValidationError(
             <<"API key must start with 'mn_live_' or 'mn_test_'">>, NoCause)
    ELSE NilError

ValidateAPIKey(apiKey) ==
    IF apiKey = <<>>
    THEN NewValidationError(<<"API key cannot be empty">>, NoCause)
    ELSE IF ~HasPrefix(apiKey, APIKeyPrefixLive)
            /\ ~HasPrefix(apiKey, APIKeyPrefixTest)
    THEN NewValidationError(
             <<"API key must start with 'mn_live_' or 'mn_test_'">>, NoCause)
    ELSE NilError

ValidateEmailAddress(email) ==
    IF email = <<>>
    THEN NewValidationError(<<"email address cannot be empty">>, NoCause)
    ELSE IF ~emailRegex(email)
    THEN NewValidationError(<<"invalid email address format: ">> \o email,
                            NoCause)
    ELSE NilError

NilRequest == [nil |-> TRUE]

\* ValidateEmailRequest looking at the to address before the from address
ValidateEmailRequestToFirst(r) ==
    IF r = NilRequest
    THEN NewValidationError(<<"email request cannot be nil">>, NoCause)
    ELSE IF r.To = <<>>
    THEN NewValidationError(<<"to address is required">>, NoCause)
    ELSE IF ValidateEmailAddress(r.To) # NilError
    THEN NewValidationError(<<"invalid to address">>,
                            AsCause(ValidateEmailAddress(r.To)))
    ELSE IF r.From = <<>>
    THEN NewValidationError(<<"from address is required">>, NoCause)
    ELSE IF ValidateEmailAddress(r.From) # NilError
    THEN NewValidationError(<<"invalid from address">>,
                            AsCause(ValidateEmailAddress(r.From)))
    ELSE IF r.Subject = ""
    THEN NewValidationError(<<"subject is required">>, NoCause)
    ELSE IF r.HTML = ""
    THEN NewValidationError(<<"HTML body is required">>, NoCause)
    ELSE NilError

\* ValidateEmailRequest without its last check
ValidateEmailRequestNoHTML(r) ==
    IF r = NilRequest
    THEN NewValidationError(<<"email request cannot be nil">>, NoCause)
    ELSE IF r.From = <<>>
    THEN NewValidationError(<<"from address is required">>, NoCause)
    ELSE IF ValidateEmailAddress(r.From) # NilError
    THEN NewValidationError(<<"invalid from address">>,
                            AsCause(ValidateEmailAddress(r.From)))
    ELSE IF r.To = <<>>
    THEN NewValidationError(<<"to address is required">>, NoCause)
    ELSE IF ValidateEmailAddress(r.To) # NilError
    THEN NewValidationError(<<"invalid to address">>,
                            AsCause(ValidateEmailAddress(r.To)))
    ELSE IF r.Subject = ""
    THEN NewValidationError(<<"subject is required">>, NoCause)
    ELSE NilError

ValidateEmailRequest(r) ==
    IF r = NilRequest
    THEN NewValidationError(<<"email request cannot be nil">>, NoCause)
    ELSE IF r.From = <<>>
    THEN NewValidationError(<<"from address is required">>, NoCause)
    ELSE IF ValidateEmailAddress(r.From) # NilError
    THEN NewValidationError(<<"invalid from address">>,
                            AsCause(ValidateEmailAddress(r.From)))
    ELSE IF r.To = <<>>
    THEN NewValidationError(<<"to address is required">>, NoCause)
    ELSE IF ValidateEmailAddress(r.To) # NilError
    THEN NewValidationError(<<"invalid to address">>,
                            AsCause(ValidateEmailAddress(r.To)))
    ELSE IF r.Subject = ""
    THEN NewValidationError(<<"subject is required">>, NoCause)
    ELSE IF r.HTML = ""
    THEN NewValidationError(<<"HTML body is required">>, NoCause)
    ELSE NilError

----------------------------------------------------------------------------
(* Wire schema (types.go) and encoding/json as the code uses it *)

JNull == [k |-> "null"]
JBool(b) == [k |-> "bool", v |-> b]
JNum(n) == [k |-> "num", v |-> n]
JStr(s) == [k |-> "str", v |-> s]
JArr == [k |-> "arr"]
JObj(f) == [k |-> "obj", f |-> f]
JInvalid == [k |-> "invalid"]

\* a response body: its bytes (text) and what they are as a JSON document
\* (JInvalid when the bytes are not a JSON document, as for an empty body)
Body(text, json) == [text |-> text, json |-> json]

\* a key that is absent leaves the field alone, as a null value does
Field(obj, key) == IF key \in DOMAIN obj.f THEN obj.f[key] ELSE JNull

NoJSONError == NoCause
SyntaxError == RawError("json: syntax error")
UnmarshalTypeError == RawError("json: cannot unmarshal value into Go field")

\* decoding of one value into a Go field of a basic type, starting from the
\* field's current value cur
DecodeBasic(kind, cur, j) ==
    IF j.k = "null" THEN [val |-> cur, ok |-> TRUE]
    ELSE IF j.k = kind THEN [val |-> j.v, ok |-> TRUE]
    ELSE [val |-> cur, ok |-> FALSE]

\* decoding into a map[string]interface{} field
DecodeMap(j) == j.k \in {"null", "obj"}

ZeroData == [MessageID |-> "", Status |-> ""]

ZeroEmailResponse ==
    [nil |-> FALSE, Data |-> ZeroData, Message |-> "", StatusCode |-> 0,
     Success |-> FALSE]

\* Data with a tag that is not the key the API sends
DecodeDataWrongTag(j) ==
    IF j.k = "null" THEN [val |-> ZeroData, ok |-> TRUE]
    ELSE IF j.k # "obj" THEN [val |-> ZeroData, ok |-> FALSE]
    ELSE LET id == DecodeBasic("str", "", Field(j, "messageId"))
             st == DecodeBasic("str", "", Field(j, "status"))
         IN  [val |-> [MessageID |-> id.val, Status |-> st.val],
              ok |-> id.ok /\ st.ok]

DecodeData(j) ==
    IF j.k = "null" THEN [val |-> ZeroData, ok |-> TRUE]
    ELSE IF j.k # "obj" THEN [val |-> ZeroData, ok |-> FALSE]
    ELSE LET id == DecodeBasic("str", "", Field(j, "message_id"))
             st == DecodeBasic("str", "", Field(j, "status"))
         IN  [val |-> [MessageID |-> id.val, Status |-> st.val],
              ok |-> id.ok /\ st.ok]

\* json.Unmarshal(body, &emailResp) on a zero EmailResponse
UnmarshalEmailResponse(body) ==
    LET j == body.json IN
    IF j.k = "invalid" THEN [err |-> SyntaxError, val |-> ZeroEmailResponse]
    ELSE IF j.k = "null"
    THEN [err |-> NoJSONError, val |-> ZeroEmailResponse]
    ELSE IF j.k # "obj"
    THEN [err |-> UnmarshalTypeError, val |-> ZeroEmailResponse]
    ELSE LET d  == DecodeData(Field(j, "data"))
             m  == DecodeBasic("str", "", Field(j, "message"))
             sc == DecodeBasic("num", 0, Field(j, "status_code"))
             su == DecodeBasic("bool", FALSE, Field(j, "success"))
         IN  [err |-> IF d.ok /\ m.ok /\ sc.ok /\ su.ok
                      THEN NoJSONError ELSE UnmarshalTypeError,
              val |-> [nil |-> FALSE, Data |-> d.val, Message |-> m.val,
                       StatusCode |-> sc.val, Success |-> su.val]]

\* json.Unmarshal(body, &errResp) on a zero ErrorResponse; Message is the
\* value of errResp.Error.Message afterwards
UnmarshalErrorResponse(body) ==
    LET j == body.json IN
    IF j.k = "invalid" THEN [err |-> SyntaxError, Message |-> ""]
    ELSE IF j.k = "null" THEN [err |-> NoJSONError, Message |-> ""]
    ELSE IF j.k # "obj" THEN [err |-> UnmarshalTypeError, Message |-> ""]
    ELSE LET e == Field(j, "error") IN
         IF e.k = "null" THEN [err |-> NoJSONError, Message |-> ""]
         ELSE IF e.k # "obj"
         THEN [err |-> UnmarshalTypeError, Message |-> ""]
         ELSE LET c == DecodeBasic("str", "", Field(e, "code"))
                  m == DecodeBasic("str", "", Field(e, "message"))
                  d == DecodeMap(Field(e, "details"))
              IN  [err |-> IF c.ok /\ m.ok /\ d
                           THEN NoJSONError ELSE UnmarshalTypeError,
                   Message |-> m.val]

\* a JSON array with its elements
JList(elems) == [k |-> "arr", elems |-> elems]

\* the Attachments of a request: nil for a request built without them
AttachmentsOf(r) ==
    IF "Attachments" \in DOMAIN r THEN r.Attachments ELSE <<>>

\* json.Marshal of an Attachment
MarshalAttachment(a) ==
    JObj([filename |-> JStr(a.Filename), content |-> JStr(a.Content),
          content_type |-> JStr(a.ContentType)])

\* json.Marshal of an *EmailRequest: Attachments is omitted when empty
MarshalEmailRequest(r) ==
    IF AttachmentsOf(r) = <<>>
    THEN JObj([from |-> JStr(r.From), to |-> JStr(r.To),
               subject |-> JStr(r.Subject), html |-> JStr(r.HTML)])
    ELSE JObj([from |-> JStr(r.From), to |-> JStr(r.To),
               subject |-> JStr(r.Subject), html |-> JStr(r.HTML),
               attachments |->
                   JList([i \in DOMAIN r.Attachments |->
                              MarshalAttachment(r.Attachments[i])])])

----------------------------------------------------------------------------
(* Transport layer (http.go) *)

\* the text of a string as message tokens: the empty string has no tokens
Text(s) == IF s = "" THEN <<>> ELSE <<s>>

\* mapStatusCodeToError without its 429 case
mapStatusCodeToErrorNo429(statusCode, message) ==
    IF statusCode = 400 THEN NewValidationError(message, NoCause)
    ELSE IF statusCode = 401 THEN NewAuthError(message, NoCause)
    ELSE IF statusCode >= 500 THEN NewServerError(message, NoCause)
    ELSE NewServerError(
             <<"unexpected status code ", ToString(statusCode), ": ">>
                 \o message, NoCause)

\* mapStatusCodeToError taking 403 for a failure of authentication as well
mapStatusCodeToErrorAuthFor403(statusCode, message) ==
    IF statusCode = 400 THEN NewValidationError(message, NoCause)
    ELSE IF statusCode = 401 \/ statusCode = 403
    THEN NewAuthError(message, NoCause)
    ELSE IF statusCode = 429 THEN NewRateLimitError(message, NoCause)
    ELSE IF statusCode >= 500 THEN NewServerError(message, NoCause)
    ELSE NewServerError(
             <<"unexpected status code ", ToString(statusCode), ": ">>
                 \o message, NoCause)

\* mapStatusCodeToError noting the code in the message of every ServerError
mapStatusCodeToErrorPrefixingAll(statusCode, message) ==
    IF statusCode = 400 THEN NewValidationError(message, NoCause)
    ELSE IF statusCode = 401 THEN NewAuthError(message, NoCause)
    ELSE IF statusCode = 429 THEN NewRateLimitError(message, NoCause)
    ELSE NewServerError(
             <<"unexpected status code ", ToString(statusCode), ": ">>
                 \o message, NoCause)

\* mapStatusCodeToError blaming the caller for every 4xx status
mapStatusCodeToError4xxAsValidation(statusCode, message) ==
    IF statusCode >= 400 /\ statusCode < 500
    THEN NewValidationError(message, NoCause)
    ELSE IF statusCode >= 500 THEN NewServerError(message, NoCause)
    ELSE NewServerError(
             <<"unexpected status code ", ToString(statusCode), ": ">>
                 \o message, NoCause)

mapStatusCodeToError(statusCode, message) ==
    IF statusCode = 400 THEN NewValidationError(message, NoCause)
    ELSE IF statusCode = 401 THEN NewAuthError(message, NoCause)
    ELSE IF statusCode = 429 THEN NewRateLimitError(message, NoCause)
    ELSE IF statusCode >= 500 THEN NewServerError(message, NoCause)
    ELSE NewServerError(
             <<"unexpected status code ", ToString(statusCode), ": ">>
                 \o message, NoCause)

NoBytes == [nil |-> TRUE]

\* HandleResponse blaming the server for a body it could not read
HandleResponseReadErrorAsServerError(err) ==
    [body |-> NoBytes,
     err |-> NewServerError(<<"failed to read response body">>, err)]

\* HandleResponse when io.ReadAll failed with err
HandleResponseReadError(err) ==
    [body |-> NoBytes,
     err |-> NewConnectionError(<<"failed to read response body">>, err)]

\* HandleResponse taking 300 for a success as well
HandleResponseBodyUpTo300(statusCode, body) ==
    IF statusCode >= 200 /\ statusCode <= 300
    THEN [body |-> body, err |-> NilError]
    ELSE LET errResp == UnmarshalErrorResponse(body) IN
         IF errResp.err # NoJSONError
         THEN [body |-> NoBytes,
               err |-> mapStatusCodeToError(statusCode, Text(body.text))]
         ELSE LET errorMessage ==
                      IF errResp.Message = ""
                      THEN <<"API request failed with status ",
                             ToString(statusCode)>>
                      ELSE <<errResp.Message>>
              IN  [body |-> NoBytes,
                   err |-> mapStatusCodeToError(statusCode, errorMessage)]

\* HandleResponse after io.ReadAll returned body
HandleResponseBody(statusCode, body) ==
    IF statusCode >= 200 /\ statusCode < 300
    THEN [body |-> body, err |-> NilError]
    ELSE LET errResp == UnmarshalErrorResponse(body) IN
         IF errResp.err # NoJSONError
         THEN [body |-> NoBytes,
               err |-> mapStatusCodeToError(statusCode, Text(body.text))]
         ELSE LET errorMessage ==
                      IF errResp.Message = ""
                      THEN <<"API request failed with status ",
                             ToString(statusCode)>>
                      ELSE <<errResp.Message>>
              IN  [body |-> NoBytes,
                   err |-> mapStatusCodeToError(statusCode, errorMessage)]

\* MakeRequest reporting a body it cannot encode as a failed connection
MakeRequestEncodeErrorAsConnection(err) ==
    NewConnectionError(<<"failed to encode request body">>, err)

\* the errors MakeRequest builds for its three failing stages
MakeRequestEncodeError(err) ==
    NewValidationError(<<"failed to encode request body">>, err)

MakeRequestCreateError(err) ==
    NewConnectionError(<<"failed to create request">>, err)

\* MakeRequest handing the failure of client.Do to its caller as it is
MakeRequestSendErrorUnwrapped(err) ==
    [kind |-> err.kind, msg |-> err.msg, cause |-> NoCause]

MakeRequestSendError(err) ==
    NewConnectionError(<<"failed to send request">>, err)

NoWire == [nil |-> TRUE]

\* a request without a body: reqBody stays nil
NoBody == [nil |-> TRUE]

\* MakeRequest sending the key as a bearer token
MakeRequestWireAuthorization(method, url, apiKey, jsonData) ==
    [nil |-> FALSE, method |-> method, url |-> url,
     header |-> [Authorization |-> <<"Bearer ">> \o apiKey,
                 ContentType |-> "application/json"],
     body |-> jsonData]

\* the request MakeRequest hands to client.Do
MakeRequestWire(method, url, apiKey, jsonData) ==
    [nil |-> FALSE, method |-> method, url |-> url,
     header |-> [XAPIKey |-> apiKey, ContentType |-> "application/json"],
     body |-> jsonData]

----------------------------------------------------------------------------
(* Client facade (client.go) *)

NilClient == [nil |-> TRUE]

\* client.go 61-77
NewClient(apiKey) ==
    IF ValidateAPIKey(apiKey) # NilError
    THEN [client |-> NilClient, err |-> ValidateAPIKey(apiKey)]
    ELSE [client |-> [nil |-> FALSE, apiKey |-> apiKey,
                      httpClient |-> [Timeout |-> RequestTimeout],
                      baseURL |-> APIBaseURL],
          err |-> NilError]

\* a test key and a live key that pass ValidateAPIKey
ClientAPIKey == APIKeyPrefixTest \o <<"a", "b", "c", "1", "2", "3">>
LiveAPIKey == APIKeyPrefixLive \o <<"7", "e", "5", "9">>

NilResponse == [nil |-> TRUE]

\* SendEmail returning the partly decoded struct together with the error
SendEmailParseKeepsResponse(body) ==
    LET u == UnmarshalEmailResponse(body) IN
    IF u.err # NoJSONError
    THEN [resp |-> u.val,
          err |-> NewServerError(<<"failed to parse response">>, u.err)]
    ELSE [resp |-> u.val, err |-> NilError]

\* SendEmail reporting an undecodable success body as the caller's fault
SendEmailParseAsValidationError(body) ==
    LET u == UnmarshalEmailResponse(body) IN
    IF u.err # NoJSONError
    THEN [resp |-> NilResponse,
          err |-> NewValidationError(<<"failed to parse response">>, u.err)]
    ELSE [resp |-> u.val, err |-> NilError]

\* the tail of SendEmail: deserialization of the bytes HandleResponse returned
SendEmailParse(body) ==
    LET u == UnmarshalEmailResponse(body) IN
    IF u.err # NoJSONError
    THEN [resp |-> NilResponse,
          err |-> NewServerError(<<"failed to parse response">>, u.err)]
    ELSE [resp |-> u.val, err |-> NilError]

----------------------------------------------------------------------------
(* Inputs *)

ValidAddress == <<"a", "@", "b", ".", "c", "c">>

\* empty, valid, no '@', no top-level label, one-letter label, embedded space
AddressSamples ==
    {<<>>, ValidAddress, <<"a", "b", ".", "c", "c">>, <<"a", "@", "b">>,
     <<"a", "@", "b", ".", "c">>, <<"a", " ", "@", "b", ".", "c", "c">>}

\* a valid request with one attachment
RequestWithAttachment ==
    [nil |-> FALSE, From |-> ValidAddress, To |-> ValidAddress,
     Subject |-> "Hello", HTML |-> "<h1>Hello World</h1>",
     Attachments |-> <<[Filename |-> "a.txt", Content |-> "aGk=",
                        ContentType |-> "text/plain"]>>]

Requests ==
    {NilRequest, RequestWithAttachment} \cup
    [nil : {FALSE}, From : AddressSamples, To : AddressSamples,
     Subject : {"", "Hello"}, HTML : {"", "<h1>Hello World</h1>"}]

StatusCodes ==
    {199, 200, 201, 204, 299, 300, 302, 399, 400, 401, 403, 404, 429, 499,
     500, 503, 599, 600}

BodyEmpty == Body("", JInvalid)
BodyNotJSON == Body("invalid json", JInvalid)
BodyNull == Body("null", JNull)
BodyEmptyObject == Body("{}", JObj([key \in {} |-> JNull]))
BodyArray == Body("[]", JArr)
BodySuccess ==
    Body("{\"success\":true,\"message\":\"ok\",\"status_code\":200,\"data\":{\"message_id\":\"msg_1\",\"status\":\"sent\"}}",
         JObj([success |-> JBool(TRUE), message |-> JStr("ok"),
               status_code |-> JNum(200),
               data |-> JObj([message_id |-> JStr("msg_1"),
                              status |-> JStr("sent")])]))
BodyQueued ==
    Body("{\"success\":false,\"message\":\"queued\",\"status_code\":202,\"data\":{\"message_id\":\"msg_2\",\"status\":\"queued\"}}",
         JObj([success |-> JBool(FALSE), message |-> JStr("queued"),
               status_code |-> JNum(202),
               data |-> JObj([message_id |-> JStr("msg_2"),
                              status |-> JStr("queued")])]))
BodyFlatSuccess ==
    Body("{\"success\": true, \"message_id\": \"msg_12345\", \"status\": \"sent\"}",
         JObj([success |-> JBool(TRUE), message_id |-> JStr("msg_12345"),
               status |-> JStr("sent")]))
BodyWrongType ==
    Body("{\"success\":\"yes\"}", JObj([success |-> JStr("yes")]))
BodyError ==
    Body("{\"error\":{\"code\":\"unauthorized\",\"message\":\"Invalid API key\"}}",
         JObj([error |-> JObj([code |-> JStr("unauthorized"),
                               message |-> JStr("Invalid API key")])]))
BodyErrorNoMessage ==
    Body("{\"error\":{\"code\":\"internal\",\"message\":\"\"}}",
         JObj([error |-> JObj([code |-> JStr("internal"),
                               message |-> JStr("")])]))
BodyErrorWrongType ==
    Body("{\"error\":\"boom\"}", JObj([error |-> JStr("boom")]))

Bodies ==
    {BodyEmpty, BodyNotJSON, BodyNull, BodyEmptyObject, BodyArray,
     BodySuccess, BodyQueued, BodyFlatSuccess, BodyWrongType, BodyError,
     BodyErrorNoMessage, BodyErrorWrongType}

\* the context: nil, not yet done, cancelled, or past its deadline
Fired == {"canceled", "deadline"}
ContextStates == {"nil", "live"} \cup Fired

\* ctx.Err() of a context that is done
ContextErr(c) ==
    IF c = "canceled" THEN RawError("context canceled")
    ELSE RawError("context deadline exceeded")

\* failures of the network operation that do not come from the context:
\* a transport-level failure and the client's own timeout
TransportErrors ==
    {RawError("connection reset by peer"),
     RawError("Client.Timeout exceeded")}

NetworkErrors(c) ==
    TransportErrors \cup (IF c \in Fired THEN {ContextErr(c)} ELSE {})

NoHTTPResponse == [nil |-> TRUE]
NotHandled == [nil |-> TRUE]

----------------------------------------------------------------------------
(* The SendEmail call as a state machine *)

\* no calls run concurrently
NoCalls == <<>>

\* no function has been called directly
NoResult == [nil |-> TRUE]

Init ==
    /\ arg \in {ClientAPIKey, LiveAPIKey}
    /\ out = NewClient(arg)
    /\ client = out.client
    /\ req \in Requests
    /\ ctx \in ContextStates
    /\ firedAt = IF ctx \in Fired THEN "before" ELSE "never"
    /\ pc = "start"
    /\ wire = NoWire
    /\ doCalls = 0
    /\ served = 0
    /\ httpResp = NoHTTPResponse
    /\ bodyOpen = FALSE
    /\ readBody = NoBytes
    /\ handled = NotHandled
    /\ retResp = NilResponse
    /\ retErr = NilError
    /\ calls = NoCalls

\* return resp, err
Return(resp, err) ==
    /\ retResp' = resp
    /\ retErr' = err
    /\ pc' = "done"

\* SendEmail looking at the context before it validates the request
SendEmailValidateAfterContext ==
    /\ pc = "start"
    /\ LET err == ValidateEmailRequest(req) IN
       IF ctx \in Fired
       THEN Return(NilResponse, MakeRequestSendError(ContextErr(ctx)))
       ELSE IF err # NilError
       THEN Return(NilResponse, err)
       ELSE pc' = "validated" /\ UNCHANGED <<retResp, retErr>>
    /\ UNCHANGED <<calls, arg, out, client, req, ctx, firedAt, wire, doCalls, served, httpResp,
                   bodyOpen, readBody, handled>>

\* client.go 97-100: validation, returning at once on failure
SendEmailValidate ==
    /\ pc = "start"
    /\ LET err == ValidateEmailRequest(req) IN
       IF err # NilError
       THEN Return(NilResponse, err)
       ELSE pc' = "validated" /\ UNCHANGED <<retResp, retErr>>
    /\ UNCHANGED <<calls, arg, out, client, req, ctx, firedAt, wire, doCalls, served, httpResp,
                   bodyOpen, readBody, handled>>

\* MakeRequest building the request without the context (http.NewRequest):
\* a context that is already done no longer stops the transport
MakeRequestDoWithoutContext ==
    /\ pc = "validated"
    /\ IF ctx = "nil"
       THEN /\ Return(NilResponse,
                      MakeRequestCreateError(RawError("net/http: nil Context")))
            /\ UNCHANGED <<wire, doCalls>>
       ELSE /\ wire' = MakeRequestWire("POST", client.baseURL \o EmailSendEndpoint,
                                       client.apiKey, MarshalEmailRequest(req))
            /\ doCalls' = doCalls + 1
            /\ pc' = "pending"
            /\ UNCHANGED <<retResp, retErr>>
    /\ UNCHANGED <<calls, arg, out, client, req, ctx, firedAt, served, httpResp, bodyOpen, readBody,
                   handled>>

\* client.go 102-106 and http.go 13-34: the URL, the JSON body, the request
\* bound to ctx, the two headers, and the call of client.Do.  A context that
\* is already done makes the transport give up before it writes anything.
MakeRequestDo ==
    /\ pc = "validated"
    /\ IF ctx = "nil"
       THEN /\ Return(NilResponse,
                      MakeRequestCreateError(RawError("net/http: nil Context")))
            /\ UNCHANGED <<wire, doCalls>>
       ELSE /\ wire' = MakeRequestWire("POST", client.baseURL \o EmailSendEndpoint,
                                       client.apiKey, MarshalEmailRequest(req))
            /\ doCalls' = doCalls + 1
            /\ pc' = IF ctx \in Fired THEN "aborting" ELSE "pending"
            /\ UNCHANGED <<retResp, retErr>>
    /\ UNCHANGED <<calls, arg, out, client, req, ctx, firedAt, served, httpResp, bodyOpen, readBody,
                   handled>>

\* the server completes the request and answers it
ServerRespond(statusCode, body) ==
    /\ pc = "pending"
    /\ served' = served + 1
    /\ httpResp' = [nil |-> FALSE, StatusCode |-> statusCode, Body |-> body]
    /\ pc' = "replied"
    /\ UNCHANGED <<calls, arg, out, client, req, ctx, firedAt, wire, doCalls, bodyOpen, readBody,
                   handled, retResp, retErr>>

\* client.Do returning a response although the context is done
ClientDoReturnIgnoringContext ==
    /\ pc = "replied"
    /\ bodyOpen' = TRUE
    /\ pc' = "responded"
    /\ UNCHANGED <<calls, arg, out, client, req, ctx, firedAt, wire, doCalls, served, httpResp,
                   readBody, handled, retResp, retErr>>

\* http.go 35-40: client.Do returns the response, MakeRequest returns it
ClientDoReturn ==
    /\ pc = "replied"
    /\ ctx = "live"
    /\ bodyOpen' = TRUE
    /\ pc' = "responded"
    /\ UNCHANGED <<calls, arg, out, client, req, ctx, firedAt, wire, doCalls, served, httpResp,
                   readBody, handled, retResp, retErr>>

\* SendEmail trying once more after a failed client.Do
ClientDoErrorRetry(err) ==
    /\ pc \in {"aborting", "pending", "replied"}
    /\ err \in NetworkErrors(ctx)
    /\ pc = "aborting" => err = ContextErr(ctx)
    /\ IF doCalls < 2
       THEN pc' = "validated" /\ UNCHANGED <<retResp, retErr>>
       ELSE Return(NilResponse, MakeRequestSendError(err))
    /\ UNCHANGED <<calls, arg, out, client, req, ctx, firedAt, wire, doCalls, served, httpResp,
                   bodyOpen, readBody, handled>>

\* http.go 35-38 and client.go 107-109: client.Do fails with err
ClientDoError(err) ==
    /\ pc \in {"aborting", "pending", "replied"}
    /\ err \in NetworkErrors(ctx)
    /\ pc = "aborting" => err = ContextErr(ctx)
    /\ Return(NilResponse, MakeRequestSendError(err))
    /\ UNCHANGED <<calls, arg, out, client, req, ctx, firedAt, wire, doCalls, served, httpResp,
                   bodyOpen, readBody, handled>>

\* http.go 47-48: io.ReadAll returns the whole body
HandleResponseRead ==
    /\ pc = "responded"
    /\ readBody' = httpResp.Body
    /\ pc' = "read"
    /\ UNCHANGED <<calls, arg, out, client, req, ctx, firedAt, wire, doCalls, served, httpResp,
                   bodyOpen, handled, retResp, retErr>>

\* HandleResponse closing the body only after a successful read
HandleResponseReadFailWithoutClose(err) ==
    /\ pc = "responded"
    /\ err \in NetworkErrors(ctx)
    /\ handled' = HandleResponseReadError(err)
    /\ Return(NilResponse, handled'.err)
    /\ UNCHANGED <<calls, arg, out, client, req, ctx, firedAt, wire, doCalls, served, httpResp,
                   bodyOpen, readBody>>

\* http.go 45-51 and client.go 113-115: io.ReadAll fails with err
HandleResponseReadFail(err) ==
    /\ pc = "responded"
    /\ err \in NetworkErrors(ctx)
    /\ handled' = HandleResponseReadError(err)
    /\ bodyOpen' = FALSE
    /\ Return(NilResponse, handled'.err)
    /\ UNCHANGED <<calls, arg, out, client, req, ctx, firedAt, wire, doCalls, served, httpResp,
                   readBody>>

\* HandleResponse looking at the context once more after the body is read
HandleResponseReturnCheckingContext ==
    /\ pc = "read"
    /\ handled' = IF ctx \in Fired
                  THEN HandleResponseReadError(ContextErr(ctx))
                  ELSE HandleResponseBody(httpResp.StatusCode, readBody)
    /\ bodyOpen' = FALSE
    /\ IF handled'.err # NilError
       THEN Return(NilResponse, handled'.err)
       ELSE pc' = "handled" /\ UNCHANGED <<retResp, retErr>>
    /\ UNCHANGED <<calls, arg, out, client, req, ctx, firedAt, wire, doCalls, served, httpResp,
                   readBody>>

\* http.go 45, 53-71 and client.go 112-115: the rest of HandleResponse
HandleResponseReturn ==
    /\ pc = "read"
    /\ handled' = HandleResponseBody(httpResp.StatusCode, readBody)
    /\ bodyOpen' = FALSE
    /\ IF handled'.err # NilError
       THEN Return(NilResponse, handled'.err)
       ELSE pc' = "handled" /\ UNCHANGED <<retResp, retErr>>
    /\ UNCHANGED <<calls, arg, out, client, req, ctx, firedAt, wire, doCalls, served, httpResp,
                   readBody>>

\* SendEmail handing the bytes to HandleResponse again instead of returning
SendEmailReturnHandlingAgain ==
    /\ pc = "handled"
    /\ pc' = "read"
    /\ UNCHANGED <<calls, arg, out, client, req, ctx, firedAt, wire, doCalls, served, httpResp,
                   bodyOpen, readBody, handled, retResp, retErr>>

\* client.go 117-123
SendEmailReturn ==
    /\ pc = "handled"
    /\ LET r == SendEmailParse(handled.body) IN Return(r.resp, r.err)
    /\ UNCHANGED <<calls, arg, out, client, req, ctx, firedAt, wire, doCalls, served, httpResp,
                   bodyOpen, readBody, handled>>

\* the caller cancels the context, or its deadline passes
ContextFire(how) ==
    /\ ctx = "live"
    /\ pc # "done"
    /\ ctx' = how
    /\ firedAt' = pc
    /\ UNCHANGED <<calls, arg, out, client, req, pc, wire, doCalls, served, httpResp, bodyOpen,
                   readBody, handled, retResp, retErr>>

Next ==
    \/ SendEmailValidate
    \/ MakeRequestDo
    \/ \E statusCode \in StatusCodes : \E body \in Bodies :
           ServerRespond(statusCode, body)
    \/ ClientDoReturn
    \/ \E err \in TransportErrors \cup {ContextErr(c) : c \in Fired} :
           ClientDoError(err)
    \/ HandleResponseRead
    \/ \E err \in TransportErrors \cup {ContextErr(c) : c \in Fired} :
           HandleResponseReadFail(err)
    \/ HandleResponseReturn
    \/ SendEmailReturn
    \/ \E how \in Fired : ContextFire(how)

Spec == Init /\ [][Next]_vars

\* the network operation and every step of the call are eventually taken
LiveSpec == Spec /\ WF_vars(Next)

----------------------------------------------------------------------------
(* Functions called directly, one call per behaviour *)

\* the variables of the SendEmail call when no call is made
NoSendEmail ==
    /\ calls = NoCalls
    /\ req = NilRequest
    /\ ctx = "live"
    /\ firedAt = "never"
    /\ wire = NoWire
    /\ doCalls = 0
    /\ served = 0
    /\ httpResp = NoHTTPResponse
    /\ bodyOpen = FALSE
    /\ readBody = NoBytes
    /\ handled = NotHandled
    /\ retResp = NilResponse
    /\ retErr = NilError

sendEmailVars ==
    <<calls, req, ctx, firedAt, wire, doCalls, served, httpResp, bodyOpen, readBody,
      handled, retResp, retErr>>

\* the first n characters of s
Take(s, n) == SubSeq(s, 1, IF n < Len(s) THEN n ELSE Len(s))

MaxKeyLen == 12

\* keys with the live prefix, with the test prefix, with another prefix, in
\* upper case, with a character before the prefix, with the prefix elsewhere
KeyStems ==
    {APIKeyPrefixLive \o <<"7", "e", "5", "9", "d", "f">>,
     APIKeyPrefixTest \o <<"7", "e", "5", "9", "d", "f">>,
     <<"m", "n", "_", "p", "r", "o", "d", "_", "1", "2", "3", "4", "5", "6">>,
     <<"M", "N", "_", "L", "I", "V", "E", "_", "7", "e", "5", "9", "d", "f">>,
     <<" ">> \o APIKeyPrefixLive \o <<"7", "e", "5", "9", "d">>,
     <<"k", "e", "y", "_">> \o APIKeyPrefixTest \o <<"7", "e">>,
     <<"m", "n", "_", "l", "i", "v", "e", "-", "7", "e", "5", "9", "d", "f">>,
     <<"m", "n", "_", "t", "e", "s", "t", "7", "e", "5", "9", "d", "f", "_">>,
     <<"i", "n", "v", "a", "l", "i", "d", "_", "k", "e", "y", "_", "1", "2">>}

Keys == {Take(stem, n) : stem \in KeyStems, n \in 0..MaxKeyLen}

InitNewClient ==
    /\ arg \in Keys
    /\ out = NoResult
    /\ client = NilClient
    /\ pc = "NewClient"
    /\ NoSendEmail

\* client, err := NewClient(arg)
NewClientCall ==
    /\ pc = "NewClient"
    /\ out' = NewClient(arg)
    /\ client' = out'.client
    /\ pc' = "returned"
    /\ UNCHANGED <<arg, sendEmailVars>>

NewClientSpec == InitNewClient /\ [][NewClientCall]_vars

InitValidateEmailRequest ==
    /\ arg \in Requests
    /\ out = NoResult
    /\ client = NilClient
    /\ pc = "ValidateEmailRequest"
    /\ NoSendEmail

\* err := ValidateEmailRequest(arg)
ValidateEmailRequestCall ==
    /\ pc = "ValidateEmailRequest"
    /\ out' = ValidateEmailRequest(arg)
    /\ pc' = "returned"
    /\ UNCHANGED <<arg, client, sendEmailVars>>

ValidateEmailRequestSpec ==
    InitValidateEmailRequest /\ [][ValidateEmailRequestCall]_vars

MaxAddressLen == 6

\* a letter, a digit, the dot, a character of local parts only, the '@' and
\* a character that no part allows
AddressAlphabet == {"a", "1", ".", "_", "@", " "}

Addresses == UNION {[1..n -> AddressAlphabet] : n \in 0..MaxAddressLen}

InitValidateEmailAddress ==
    /\ arg \in Addresses
    /\ out = NoResult
    /\ client = NewClient(ClientAPIKey).client
    /\ pc = "ValidateEmailAddress"
    /\ NoSendEmail

\* err := ValidateEmailAddress(arg)
ValidateEmailAddressCall ==
    /\ pc = "ValidateEmailAddress"
    /\ out' = ValidateEmailAddress(arg)
    /\ pc' = "returned"
    /\ UNCHANGED <<arg, client, sendEmailVars>>

\* a request that is complete and valid but for the address arg, which is
\* its from address or its to address
RequestWithAddress(field, address) ==
    [nil |-> FALSE,
     From |-> IF field = "From" THEN address ELSE ValidAddress,
     To |-> IF field = "To" THEN address ELSE ValidAddress,
     Subject |-> "Hello", HTML |-> "<h1>Hello World</h1>"]

\* the caller goes on to call SendEmail with such a request
SendEmailWithAddress(field) ==
    /\ pc = "returned"
    /\ req' = RequestWithAddress(field, arg)
    /\ pc' = "start"
    /\ UNCHANGED <<calls, arg, out, client, ctx, firedAt, wire, doCalls, served,
                   httpResp, bodyOpen, readBody, handled, retResp, retErr>>

ValidateEmailAddressNext ==
    \/ ValidateEmailAddressCall
    \/ \E field \in {"From", "To"} : SendEmailWithAddress(field)
    \/ SendEmailValidate

ValidateEmailAddressSpec ==
    InitValidateEmailAddress /\ [][ValidateEmailAddressNext]_vars

MaxWrap == 2

ErrorMessages == {<<>>, <<"validation failed">>}

\* the errors built by at most n nested constructor calls
RECURSIVE ErrorInstances(_)
ErrorInstances(n) ==
    IF n = 0 THEN {}
    ELSE {Construct(kind, message, err) :
              kind \in ErrorKinds, message \in ErrorMessages,
              err \in {NoCause, RawError("base error")}
                          \cup ErrorInstances(n - 1)}

\* the arguments of a constructor call
ConstructorCalls ==
    [kind : ErrorKinds, message : ErrorMessages,
     err : {NoCause, RawError("base error")}
               \cup ErrorInstances(MaxWrap - 1)]

InitError ==
    /\ arg \in ConstructorCalls
    /\ out = NoResult
    /\ client = NilClient
    /\ pc = "NewError"
    /\ NoSendEmail

\* e := New<kind>(message, err), then e.Error(), e.Unwrap() and errors.As
\* of e for a target of each kind
ErrorCall ==
    /\ pc = "NewError"
    /\ LET e == Construct(arg.kind, arg.message, arg.err) IN
       out' = [instance |-> e, Error |-> ErrorString(e),
               Unwrap |-> Unwrap(e),
               As |-> [kind \in ErrorKinds |-> As(e, kind)]]
    /\ pc' = "returned"
    /\ UNCHANGED <<arg, client, sendEmailVars>>

ErrorSpec == InitError /\ [][ErrorCall]_vars

\* a body that json.Marshal rejects: make(chan int)
Unmarshalable == [chan |-> TRUE]

\* the body argument of MakeRequest: nil, an *EmailRequest, or a channel
MakeRequestBodies ==
    {NoBody, RequestWithAddress("To", ValidAddress), RequestWithAttachment,
     Unmarshalable}

MakeRequestCalls ==
    [method : {"POST", "GET"},
     url : {APIBaseURL \o EmailSendEndpoint, "http://127.0.0.1:8080"},
     apiKey : {ClientAPIKey, LiveAPIKey},
     body : MakeRequestBodies]

InitMakeRequest ==
    /\ arg \in MakeRequestCalls
    /\ out = NoResult
    /\ client = NilClient
    /\ req = NilRequest
    /\ ctx \in ContextStates
    /\ firedAt = IF ctx \in Fired THEN "before" ELSE "never"
    /\ pc = "MakeRequest"
    /\ wire = NoWire
    /\ doCalls = 0
    /\ served = 0
    /\ httpResp = NoHTTPResponse
    /\ bodyOpen = FALSE
    /\ readBody = NoBytes
    /\ handled = NotHandled
    /\ retResp = NilResponse
    /\ retErr = NilError
    /\ calls = NoCalls

\* resp, err := MakeRequest(ctx, client, arg.method, arg.url, arg.apiKey,
\* arg.body), http.go 13-41, the server answering with statusCode or the
\* transport failing with err
MakeRequestCall(statusCode, err) ==
    /\ pc = "MakeRequest"
    /\ IF arg.body = Unmarshalable
       THEN /\ out' = [resp |-> NoHTTPResponse,
                       err |-> MakeRequestEncodeError(
                                   RawError("json: unsupported type: chan int"))]
            /\ UNCHANGED <<wire, doCalls>>
       ELSE IF ctx = "nil"
       THEN /\ out' = [resp |-> NoHTTPResponse,
                       err |-> MakeRequestCreateError(
                                   RawError("net/http: nil Context"))]
            /\ UNCHANGED <<wire, doCalls>>
       ELSE /\ wire' = MakeRequestWire(arg.method, arg.url, arg.apiKey,
                                       IF arg.body = NoBody THEN NoBody
                                       ELSE MarshalEmailRequest(arg.body))
            /\ doCalls' = doCalls + 1
            /\ \/ /\ ctx = "live"
                  /\ out' = [resp |-> [nil |-> FALSE,
                                       StatusCode |-> statusCode,
                                       Body |-> BodyEmpty],
                             err |-> NilError]
               \/ /\ err \in NetworkErrors(ctx)
                  /\ ctx \in Fired => err = ContextErr(ctx)
                  /\ out' = [resp |-> NoHTTPResponse,
                             err |-> MakeRequestSendError(err)]
    /\ pc' = "returned"
    /\ UNCHANGED <<calls, arg, client, req, ctx, firedAt, served, httpResp,
                   bodyOpen, readBody, handled, retResp, retErr>>

\* SendEmail calls and direct calls of MakeRequest
MakeRequestNext ==
    \/ \E statusCode \in {200, 500} :
       \E err \in TransportErrors \cup {ContextErr(c) : c \in Fired} :
           MakeRequestCall(statusCode, err)
    \/ Next

MakeRequestSpec == (Init \/ InitMakeRequest) /\ [][MakeRequestNext]_vars

----------------------------------------------------------------------------
(* SendEmail calls running concurrently on one Client *)

NumCalls == 2

CallIds == 1..NumCalls

\* no failure of the network operation of a call so far
NoFault == [stage |-> "none", err |-> NoCause]

\* a call of c.SendEmail(ctx, req) that has not taken a step yet
NewCall(context, request) ==
    [req |-> request, ctx |-> context, pc |-> "start", wire |-> NoWire,
     httpResp |-> NoHTTPResponse, bodyOpen |-> FALSE, fault |-> NoFault,
     handled |-> NotHandled, retResp |-> NilResponse, retErr |-> NilError]

ConcurrentRequests ==
    {RequestWithAddress("To", ValidAddress), RequestWithAddress("To", <<>>)}

ConcurrentContexts == {"nil", "live", "canceled"}

ConcurrentResponses ==
    {<<200, BodySuccess>>, <<200, BodyNotJSON>>, <<401, BodyError>>}

ConcurrentErrors ==
    {RawError("connection reset by peer"), ContextErr("canceled")}

InitConcurrent ==
    /\ arg = ClientAPIKey
    /\ out = NewClient(arg)
    /\ client = out.client
    /\ calls \in [CallIds -> {NewCall(context, request) :
                                  context \in ConcurrentContexts,
                                  request \in ConcurrentRequests}]
    /\ req = NilRequest
    /\ ctx = "live"
    /\ firedAt = "never"
    /\ pc = "concurrent"
    /\ wire = NoWire
    /\ doCalls = 0
    /\ served = 0
    /\ httpResp = NoHTTPResponse
    /\ bodyOpen = FALSE
    /\ readBody = NoBytes
    /\ handled = NotHandled
    /\ retResp = NilResponse
    /\ retErr = NilError

\* the variables of the single call, which the concurrent calls leave alone
singleCallVars ==
    <<arg, out, req, ctx, firedAt, pc, wire, httpResp, bodyOpen, readBody,
      handled, retResp, retErr>>

\* call i returns resp, err
CallReturn(i, resp, err) ==
    [calls[i] EXCEPT !.retResp = resp, !.retErr = err, !.pc = "done"]

\* client.go 97-100 in call i
CallValidate(i) ==
    /\ calls[i].pc = "start"
    /\ LET err == ValidateEmailRequest(calls[i].req) IN
       calls' = [calls EXCEPT ![i] =
                     IF err # NilError THEN CallReturn(i, NilResponse, err)
                     ELSE [calls[i] EXCEPT !.pc = "validated"]]
    /\ UNCHANGED <<client, doCalls, served, singleCallVars>>

\* call i keeping the URL it built in the client
CallMakeRequestDoCachingURL(i) ==
    /\ calls[i].pc = "validated"
    /\ client' = [client EXCEPT !.baseURL = client.baseURL \o EmailSendEndpoint]
    /\ IF calls[i].ctx = "nil"
       THEN /\ calls' = [calls EXCEPT ![i] =
                   CallReturn(i, NilResponse,
                       MakeRequestCreateError(RawError("net/http: nil Context")))]
            /\ UNCHANGED doCalls
       ELSE /\ calls' = [calls EXCEPT ![i] =
                   [calls[i] EXCEPT
                        !.wire = MakeRequestWire("POST", client'.baseURL,
                                     client.apiKey,
                                     MarshalEmailRequest(calls[i].req)),
                        !.pc = IF calls[i].ctx \in Fired
                               THEN "aborting" ELSE "pending"]]
            /\ doCalls' = doCalls + 1
    /\ UNCHANGED <<served, singleCallVars>>

\* client.go 102-106 and http.go 13-34 in call i: the request goes to the
\* *http.Client that all the calls share
CallMakeRequestDo(i) ==
    /\ calls[i].pc = "validated"
    /\ IF calls[i].ctx = "nil"
       THEN /\ calls' = [calls EXCEPT ![i] =
                   CallReturn(i, NilResponse,
                       MakeRequestCreateError(RawError("net/http: nil Context")))]
            /\ UNCHANGED doCalls
       ELSE /\ calls' = [calls EXCEPT ![i] =
                   [calls[i] EXCEPT
                        !.wire = MakeRequestWire("POST",
                                     client.baseURL \o EmailSendEndpoint,
                                     client.apiKey,
                                     MarshalEmailRequest(calls[i].req)),
                        !.pc = IF calls[i].ctx \in Fired
                               THEN "aborting" ELSE "pending"]]
            /\ doCalls' = doCalls + 1
    /\ UNCHANGED <<client, served, singleCallVars>>

\* the server answers the request of call i
CallServerRespond(i, statusCode, body) ==
    /\ calls[i].pc = "pending"
    /\ served' = served + 1
    /\ calls' = [calls EXCEPT ![i] =
           [calls[i] EXCEPT
                !.httpResp = [nil |-> FALSE, StatusCode |-> statusCode,
                              Body |-> body],
                !.pc = "replied"]]
    /\ UNCHANGED <<client, doCalls, singleCallVars>>

\* http.go 35-40 in call i: client.Do returns the response to its request
CallClientDoReturn(i) ==
    /\ calls[i].pc = "replied"
    /\ calls[i].ctx = "live"
    /\ calls' = [calls EXCEPT ![i] =
           [calls[i] EXCEPT !.bodyOpen = TRUE, !.pc = "responded"]]
    /\ UNCHANGED <<client, doCalls, served, singleCallVars>>

\* http.go 35-38 and client.go 107-109 in call i: client.Do fails with err
CallClientDoError(i, err) ==
    /\ calls[i].pc \in {"aborting", "pending", "replied"}
    /\ err \in NetworkErrors(calls[i].ctx)
    /\ calls[i].pc = "aborting" => err = ContextErr(calls[i].ctx)
    /\ calls' = [calls EXCEPT ![i] =
           [CallReturn(i, NilResponse, MakeRequestSendError(err)) EXCEPT
                !.fault = [stage |-> "send", err |-> err]]]
    /\ UNCHANGED <<client, doCalls, served, singleCallVars>>

\* http.go 44-72 and client.go 112-115 in call i: HandleResponse reads the
\* body of the call's response, closes it and maps the status code
CallHandleResponse(i) ==
    /\ calls[i].pc = "responded"
    /\ LET h == HandleResponseBody(calls[i].httpResp.StatusCode,
                                   calls[i].httpResp.Body) IN
       calls' = [calls EXCEPT ![i] =
           IF h.err # NilError
           THEN [CallReturn(i, NilResponse, h.err) EXCEPT
                     !.handled = h, !.bodyOpen = FALSE]
           ELSE [calls[i] EXCEPT
                     !.handled = h, !.bodyOpen = FALSE, !.pc = "handled"]]
    /\ UNCHANGED <<client, doCalls, served, singleCallVars>>

\* http.go 45-51 and client.go 113-115 in call i: io.ReadAll fails with err
CallHandleResponseReadFail(i, err) ==
    /\ calls[i].pc = "responded"
    /\ err \in NetworkErrors(calls[i].ctx)
    /\ LET h == HandleResponseReadError(err) IN
       calls' = [calls EXCEPT ![i] =
           [CallReturn(i, NilResponse, h.err) EXCEPT
                !.handled = h, !.bodyOpen = FALSE,
                !.fault = [stage |-> "read", err |-> err]]]
    /\ UNCHANGED <<client, doCalls, served, singleCallVars>>

\* client.go 117-123 in call i
CallSendEmailReturn(i) ==
    /\ calls[i].pc = "handled"
    /\ LET r == SendEmailParse(calls[i].handled.body) IN
       calls' = [calls EXCEPT ![i] = CallReturn(i, r.resp, r.err)]
    /\ UNCHANGED <<client, doCalls, served, singleCallVars>>

\* the caller of call i cancels the context of that call
CallContextFire(i, how) ==
    /\ calls[i].ctx = "live"
    /\ calls[i].pc # "done"
    /\ calls' = [calls EXCEPT ![i] = [calls[i] EXCEPT !.ctx = how]]
    /\ UNCHANGED <<client, doCalls, served, singleCallVars>>

\* any call takes its next step
ConcurrentNext ==
    \E i \in CallIds :
        \/ CallValidate(i)
        \/ CallMakeRequestDo(i)
        \/ \E response \in ConcurrentResponses :
               CallServerRespond(i, response[1], response[2])
        \/ CallClientDoReturn(i)
        \/ \E err \in ConcurrentErrors : CallClientDoError(i, err)
        \/ CallHandleResponse(i)
        \/ \E err \in ConcurrentErrors : CallHandleResponseReadFail(i, err)
        \/ CallSendEmailReturn(i)
        \/ CallContextFire(i, "canceled")

ConcurrentSpec == InitConcurrent /\ [][ConcurrentNext]_vars

MinStatusCode == 100
MaxStatusCode == 999

\* the status codes of a response: three digits
AllStatusCodes == MinStatusCode..MaxStatusCode

\* how io.ReadAll ends: with all the bytes, or with an error
ReadErrors ==
    {NoCause, RawError("connection reset by peer"), ContextErr("canceled")}

InitHandleResponse ==
    /\ arg \in [StatusCode : AllStatusCodes, Body : Bodies,
                readErr : ReadErrors]
    /\ out = NoResult
    /\ client = NilClient
    /\ calls = NoCalls
    /\ req = NilRequest
    /\ ctx = "live"
    /\ firedAt = "never"
    /\ pc = "HandleResponse"
    /\ wire = NoWire
    /\ doCalls = 0
    /\ served = 0
    /\ httpResp = [nil |-> FALSE, StatusCode |-> arg.StatusCode,
                   Body |-> arg.Body]
    /\ bodyOpen = TRUE
    /\ readBody = NoBytes
    /\ handled = NotHandled
    /\ retResp = NilResponse
    /\ retErr = NilError

\* body, err := HandleResponse(resp), http.go 44-72, for a response with
\* status arg.StatusCode whose body reads as arg.Body or fails to be read
HandleResponseCall ==
    /\ pc = "HandleResponse"
    /\ IF arg.readErr # NoCause
       THEN /\ out' = HandleResponseReadError(arg.readErr)
            /\ UNCHANGED readBody
       ELSE /\ readBody' = httpResp.Body
            /\ out' = HandleResponseBody(httpResp.StatusCode, readBody')
    /\ bodyOpen' = FALSE
    /\ pc' = "returned"
    /\ UNCHANGED <<calls, arg, client, req, ctx, firedAt, wire, doCalls,
                   served, httpResp, handled, retResp, retErr>>

HandleResponseSpec == InitHandleResponse /\ [][HandleResponseCall]_vars

----------------------------------------------------------------------------
(* Properties *)

Done == pc = "done"

Is2xx(statusCode) == statusCode >= 200 /\ statusCode < 300

\* the body was read to its end by io.ReadAll
BodyWasRead == readBody # NoBytes

\* a request that lacks a field or has a malformed address
RequestIsInvalid(r) ==
    \/ r = NilRequest
    \/ r.From = <<>> \/ r.To = <<>> \/ r.Subject = "" \/ r.HTML = ""
    \/ ~emailRegex(r.From) \/ ~emailRegex(r.To)

\* C1: a call whose request fails validation returns a ValidationError and a
\* nil response, and client.Do was not invoked during the call.
C1_InvalidRequestNeverReachesNetwork ==
    (Done /\ (RequestIsInvalid(req) \/ ValidateEmailRequest(req) # NilError))
        => /\ retErr.kind = "ValidationError"
           /\ retResp = NilResponse
           /\ doCalls = 0
           /\ wire = NoWire

C1_Witness ==
    /\ Done
    /\ req # NilRequest
    /\ req.From = ValidAddress /\ req.To = ValidAddress
    /\ req.Subject = "Hello" /\ req.HTML = ""
    /\ retErr.kind = "ValidationError"

\* C2: a completed call returned either a response and a nil error, or a nil
\* response and an error; never both and never neither.
C2_ResponseXorError ==
    Done => \/ retResp # NilResponse /\ retErr = NilError
            \/ retResp = NilResponse /\ retErr # NilError

C2_Witness ==
    /\ Done
    /\ retResp # NilResponse
    /\ retErr = NilError
    /\ httpResp.Body = BodySuccess

\* the kind the status code stands for
KindForStatus(statusCode) ==
    CASE statusCode = 400 -> "ValidationError"
      [] statusCode = 401 -> "AuthError"
      [] statusCode = 429 -> "RateLimitError"
      [] OTHER -> "ServerError"

HandleResponseReturned == handled # NotHandled

\* C3 as stated: for every non-2xx status HandleResponse returns the error
\* kind that the status code alone determines.
C3_KindByStatusAlone ==
    (HandleResponseReturned /\ ~Is2xx(httpResp.StatusCode))
        => handled.err.kind = KindForStatus(httpResp.StatusCode)

\* C3 amended: for every non-2xx status whose body was read without error,
\* HandleResponse returns the error kind that the status code alone
\* determines, whether or not the body parses as an ErrorResponse; when
\* reading the body fails it returns a ConnectionError whatever the status.
C3_KindByStatusWhenBodyRead ==
    (HandleResponseReturned /\ ~Is2xx(httpResp.StatusCode))
        => /\ handled.body = NoBytes
           /\ handled.err.kind =
                  IF BodyWasRead THEN KindForStatus(httpResp.StatusCode)
                  ELSE "ConnectionError"

C3_Witness ==
    /\ HandleResponseReturned
    /\ httpResp.StatusCode = 429
    /\ readBody = BodyNotJSON
    /\ handled.err.kind = "RateLimitError"

\* C4: every error a completed call returned is of one of the five kinds.
C4_OnlyFiveKinds ==
    (Done /\ retErr # NilError) => retErr.kind \in ErrorKinds

C4_Witness ==
    /\ Done
    /\ retErr.kind = "ConnectionError"
    /\ retErr.cause = RawError("connection reset by peer")

FiredBeforeResponse == firedAt \in {"validated", "pending", "replied"}

\* C5: once the context has fired after validation and before client.Do
\* returned a response, the call eventually returns, and it returns a
\* ConnectionError and a nil response.
C5_CancelBeforeResponse ==
    FiredBeforeResponse
        ~> (Done /\ retErr.kind = "ConnectionError" /\ retResp = NilResponse)

C5_Witness ==
    /\ Done
    /\ firedAt = "pending"
    /\ ctx = "deadline"
    /\ retErr = MakeRequestSendError(ContextErr("deadline"))

\* C6: a call with a valid request and a context that was done before the
\* call returns a ConnectionError and a nil response, and the server completed
\* no request.
C6_AlreadyCancelled ==
    (Done /\ firedAt = "before" /\ ValidateEmailRequest(req) = NilError)
        => /\ retErr.kind = "ConnectionError"
           /\ retResp = NilResponse
           /\ served = 0

C6_Witness ==
    /\ Done
    /\ firedAt = "before"
    /\ ctx = "canceled"
    /\ doCalls = 1
    /\ retErr.kind = "ConnectionError"

\* what SendEmail returns for a response with this status and body when
\* nothing interferes
Outcome(statusCode, body) ==
    LET h == HandleResponseBody(statusCode, body) IN
    IF h.err # NilError THEN <<NilResponse, h.err>>
    ELSE <<SendEmailParse(h.body).resp, SendEmailParse(h.body).err>>

\* C7: when the body was read to its end, the call returns what the status
\* and the body determine, the same whether the context never fired or fired
\* after the read.
C7_LateCancelHasNoEffect ==
    (Done /\ BodyWasRead /\ firedAt \in {"never", "read", "handled"})
        => <<retResp, retErr>> = Outcome(httpResp.StatusCode, httpResp.Body)

C7_Witness ==
    /\ Done
    /\ firedAt = "read"
    /\ retResp # NilResponse
    /\ retResp.Data.MessageID = "msg_1"

\* C8: a call invokes client.Do at most once, and exactly once when
\* validation and request construction succeeded.
C8_AtMostOneRequest ==
    /\ doCalls <= 1
    /\ Done => (doCalls = 1 <=>
                    (ValidateEmailRequest(req) = NilError /\ ctx # "nil"))

C8_Witness ==
    /\ Done
    /\ doCalls = 1
    /\ httpResp # NoHTTPResponse
    /\ httpResp.StatusCode = 503
    /\ retErr.kind = "ServerError"

\* C9: a 2xx response whose body does not deserialize into EmailResponse
\* makes the call return a ServerError that wraps the parse failure, and a
\* nil response.
C9_UndecodableSuccessIsServerError ==
    (Done /\ BodyWasRead /\ Is2xx(httpResp.StatusCode)
          /\ UnmarshalEmailResponse(readBody).err # NoJSONError)
        => /\ retErr.kind = "ServerError"
           /\ retErr.cause = UnmarshalEmailResponse(readBody).err
           /\ retResp = NilResponse

C9_Witness ==
    /\ Done
    /\ httpResp # NoHTTPResponse
    /\ httpResp.StatusCode = 204
    /\ readBody = BodyEmpty
    /\ retErr.kind = "ServerError"
    /\ retErr.cause = SyntaxError

IsJSON(j, kind) == j.k = kind

\* the body is a JSON object with success, message, status_code and data,
\* data an object with message_id and status, each of its type
MatchesEmailResponseShape(body) ==
    LET j == body.json IN
    /\ IsJSON(j, "obj")
    /\ {"success", "message", "status_code", "data"} \subseteq DOMAIN j.f
    /\ IsJSON(j.f["success"], "bool")
    /\ IsJSON(j.f["message"], "str")
    /\ IsJSON(j.f["status_code"], "num")
    /\ IsJSON(j.f["data"], "obj")
    /\ {"message_id", "status"} \subseteq DOMAIN j.f["data"].f
    /\ IsJSON(j.f["data"].f["message_id"], "str")
    /\ IsJSON(j.f["data"].f["status"], "str")

\* C10: a call returns a response object only for a 2xx status whose body
\* is JSON of the EmailResponse shape.
C10_ResponseOnlyForMatchingBody ==
    (Done /\ retResp # NilResponse)
        => /\ Is2xx(httpResp.StatusCode)
           /\ MatchesEmailResponseShape(httpResp.Body)

\* C11: for a 2xx response whose body is the documented success JSON, the
\* call returns a nil error and a response whose five fields are the values
\* of the body.
C11_SuccessBodyIsDecoded ==
    (Done /\ BodyWasRead /\ Is2xx(httpResp.StatusCode)
          /\ MatchesEmailResponseShape(readBody))
        => LET j == readBody.json IN
           /\ retErr = NilError
           /\ retResp # NilResponse
           /\ retResp.Success = j.f["success"].v
           /\ retResp.Message = j.f["message"].v
           /\ retResp.StatusCode = j.f["status_code"].v
           /\ retResp.Data.MessageID = j.f["data"].f["message_id"].v
           /\ retResp.Data.Status = j.f["data"].f["status"].v

C11_Witness ==
    /\ Done
    /\ httpResp # NoHTTPResponse
    /\ httpResp.StatusCode = 201
    /\ readBody = BodyQueued
    /\ retErr = NilError
    /\ retResp.Data.MessageID = "msg_2"
    /\ retResp.Data.Status = "queued"

\* the success payload of the README: message_id and status at the top level
IsFlatSuccessBody(body) ==
    LET j == body.json IN
    /\ IsJSON(j, "obj")
    /\ {"success", "message_id", "status"} \subseteq DOMAIN j.f
    /\ j.f["success"] = JBool(TRUE)
    /\ IsJSON(j.f["message_id"], "str")
    /\ j.f["message_id"].v # ""

\* C12: for a 200 response with the README's success payload the call
\* returns a response with Success true and a non-empty message ID.
C12_FlatPayloadHasMessageID ==
    (Done /\ BodyWasRead /\ httpResp.StatusCode = 200
          /\ IsFlatSuccessBody(readBody))
        => /\ retErr = NilError
           /\ retResp # NilResponse
           /\ retResp.Success = TRUE
           /\ retResp.Data.MessageID # ""

Returned == pc = "returned"

\* the first characters of key are those of prefix
StartsWith(key, prefix) ==
    /\ Len(key) >= Len(prefix)
    /\ \A i \in 1..Len(prefix) : key[i] = prefix[i]

\* C13: NewClient succeeds exactly for the keys that start with "mn_live_" or
\* "mn_test_"; it then returns a client with that key, the base URL and the
\* 30-second timeout, and otherwise a ValidationError and a nil client.
C13_NewClientAcceptsPrefixedKeys ==
    Returned =>
        IF StartsWith(arg, <<"m", "n", "_", "l", "i", "v", "e", "_">>)
           \/ StartsWith(arg, <<"m", "n", "_", "t", "e", "s", "t", "_">>)
        THEN /\ out.err = NilError
             /\ out.client # NilClient
             /\ out.client.apiKey = arg
             /\ out.client.baseURL = "https://api.mailnow.xyz"
             /\ out.client.httpClient.Timeout = 30
        ELSE /\ out.err.kind = "ValidationError"
             /\ out.client = NilClient

C13_Witness ==
    /\ Returned
    /\ arg = <<"m", "n", "_", "t", "e", "s", "t", "_">>
    /\ out.err = NilError
    /\ out.client.apiKey = arg

\* positions of the character c in s
Positions(s, c) == {i \in 1..Len(s) : s[i] = c}

Last(set) == CHOOSE i \in set : \A j \in set : j <= i

\* s is local@domain.tld: one '@', a non-empty local part of local
\* characters, and after the '@' a non-empty domain of domain characters,
\* the last '.', and two or more letters
IsAddress(s) ==
    /\ Cardinality(Positions(s, "@")) = 1
    /\ LET at == Last(Positions(s, "@")) IN
       /\ at > 1
       /\ \A i \in 1..(at - 1) : s[i] \in LocalChars
       /\ Positions(s, ".") \cap (at + 1)..Len(s) # {}
       /\ LET dot == Last(Positions(s, ".")) IN
          /\ dot > at + 1
          /\ \A i \in (at + 1)..(dot - 1) : s[i] \in DomainChars
          /\ Len(s) - dot >= 2
          /\ \A i \in (dot + 1)..Len(s) : s[i] \in Letters

\* the error of the address check for a malformed address
FormatError(address) ==
    [kind |-> "ValidationError",
     msg |-> <<"invalid email address format: ">> \o address]

\* the first check of the fixed order that the request fails: its message
\* and its cause
FirstFailure(r) ==
    CASE r.From = <<>> -> <<"from address is required", NoCause>>
      [] r.From # <<>> /\ ~IsAddress(r.From)
            -> <<"invalid from address", FormatError(r.From)>>
      [] IsAddress(r.From) /\ r.To = <<>>
            -> <<"to address is required", NoCause>>
      [] IsAddress(r.From) /\ r.To # <<>> /\ ~IsAddress(r.To)
            -> <<"invalid to address", FormatError(r.To)>>
      [] IsAddress(r.From) /\ IsAddress(r.To) /\ r.Subject = ""
            -> <<"subject is required", NoCause>>
      [] IsAddress(r.From) /\ IsAddress(r.To) /\ r.Subject # ""
         /\ r.HTML = ""
            -> <<"HTML body is required", NoCause>>
      [] OTHER -> <<"", NoCause>>

\* C14: on a non-nil request ValidateEmailRequest reports the error of the
\* first failing check in the order from, from format, to, to format,
\* subject, HTML; the format errors carry the address check's error as
\* cause, the others carry none; a request that passes every check gets nil.
C14_FirstFailingCheckIsReported ==
    (Returned /\ arg # NilRequest)
        => IF FirstFailure(arg)[1] = ""
           THEN out = NilError
           ELSE /\ out.kind = "ValidationError"
                /\ out.msg = <<FirstFailure(arg)[1]>>
                /\ out.cause = FirstFailure(arg)[2]

C14_Witness ==
    /\ Returned
    /\ arg # NilRequest
    /\ arg.From = <<"a", "@", "b">>
    /\ arg.To = <<>>
    /\ arg.Subject = ""
    /\ arg.HTML = ""
    /\ out.msg = <<"invalid from address">>
    /\ out.cause.kind = "ValidationError"

\* the address is empty, has no '@', has nothing between the '@' and the
\* last dot, has no dot after the '@', or contains a space
PlainlyMalformed(s) ==
    \/ s = <<>>
    \/ Positions(s, "@") = {}
    \/ Positions(s, " ") # {}
    \/ \E at \in Positions(s, "@") :
           \/ Positions(s, ".") \cap (at + 1)..Len(s) = {}
           \/ Last(Positions(s, ".")) = at + 1

\* C15: ValidateEmailAddress accepts exactly the addresses local@domain.tld
\* and rejects every other one with a ValidationError, among them the empty
\* address and those without '@', domain or top-level label or with a space;
\* SendEmail with a rejected from or to address returns a ValidationError.
C15_AddressPatternIsExact ==
    /\ pc \in {"returned", "start", "validated", "done"}
          => /\ out = NilError <=> IsAddress(arg)
             /\ out # NilError => out.kind = "ValidationError"
             /\ PlainlyMalformed(arg) => out.kind = "ValidationError"
    /\ (Done /\ ~IsAddress(arg))
          => /\ retErr.kind = "ValidationError"
             /\ retResp = NilResponse
             /\ doCalls = 0
    /\ pc = "validated" => IsAddress(arg)

C15_Witness ==
    /\ Done
    /\ arg = <<"a", "@", "a", ".", "a", "1">>
    /\ req.To = arg
    /\ out.msg = <<"invalid email address format: ">> \o arg
    /\ retErr.msg = <<"invalid to address">>

\* the kinds of an error and of the errors of its chain of causes
RECURSIVE ChainKinds(_)
ChainKinds(e) ==
    {e.kind} \cup (IF "cause" \in DOMAIN e /\ e.cause.kind # "nil"
                   THEN ChainKinds(e.cause) ELSE {})

\* C16 as stated: kind matching succeeds for the kind of the constructor and
\* for none of the other four, with or without a cause.
C16_OnlyOwnKindMatches ==
    Returned => \A kind \in ErrorKinds : out.As[kind] <=> kind = arg.kind

\* C16 amended: kind matching succeeds for the kind of the constructor, and
\* for another kind exactly when the chain of causes holds an error of that
\* kind; so with no cause, or with causes of no other of the five kinds,
\* only the instance's own kind matches.
C16_OwnKindAndKindsOfCauses ==
    Returned =>
        /\ out.As[arg.kind]
        /\ \A kind \in ErrorKinds \ {arg.kind} :
               out.As[kind] <=> kind \in ChainKinds(arg.err)
        /\ ChainKinds(arg.err) \cap ErrorKinds \subseteq {arg.kind}
               => \A kind \in ErrorKinds : out.As[kind] <=> kind = arg.kind

C16_Witness ==
    /\ Returned
    /\ arg.kind = "AuthError"
    /\ arg.err = RawError("base error")
    /\ out.As["AuthError"]
    /\ \A kind \in ErrorKinds \ {"AuthError"} : ~out.As[kind]

\* C17: Error() is the message, followed by ": " and the cause's text when
\* the constructor got a cause; Unwrap returns the cause the constructor got.
C17_ErrorTextAndUnwrap ==
    Returned =>
        /\ out.Error = IF arg.err # NoCause
                       THEN arg.message \o <<": ">> \o ErrorString(arg.err)
                       ELSE arg.message
        /\ out.Unwrap = arg.err

C17_Witness ==
    /\ Returned
    /\ arg.kind = "ConnectionError"
    /\ arg.message = <<"validation failed">>
    /\ arg.err = RawError("base error")
    /\ out.Error = <<"validation failed", ": ", "base error">>
    /\ out.Unwrap = RawError("base error")

\* C18: every request handed to the HTTP client carries exactly the headers
\* X-API-Key, with the key given to MakeRequest, and Content-Type
\* application/json, with a body or without one; a request of SendEmail is
\* a POST to the base URL followed by "/v1/email/send", its key is the key
\* NewClient was given, and its body is the JSON form of the valid request.
C18_RequestShape ==
    wire # NoWire =>
        /\ wire.header =
               [XAPIKey |-> IF client = NilClient THEN arg.apiKey ELSE arg,
                ContentType |-> "application/json"]
        /\ client = NilClient =>
               /\ wire.method = arg.method
               /\ wire.url = arg.url
               /\ arg.body = NoBody => wire.body = NoBody
        /\ client # NilClient =>
               /\ ~RequestIsInvalid(req)
               /\ wire.method = "POST"
               /\ wire.url = APIBaseURL \o "/v1/email/send"
               /\ wire.body.k = "obj"
               /\ wire.body.f.from = JStr(req.From)
               /\ wire.body.f.to = JStr(req.To)
               /\ wire.body.f.subject = JStr(req.Subject)
               /\ wire.body.f.html = JStr(req.HTML)
               /\ IF req = RequestWithAttachment
                  THEN /\ DOMAIN wire.body.f =
                              {"from", "to", "subject", "html", "attachments"}
                       /\ wire.body.f.attachments =
                              JList(<<JObj([filename |-> JStr("a.txt"),
                                            content |-> JStr("aGk="),
                                            content_type |->
                                                JStr("text/plain")])>>)
                  ELSE DOMAIN wire.body.f = {"from", "to", "subject", "html"}

C18_Witness ==
    /\ Done
    /\ client # NilClient
    /\ arg = LiveAPIKey
    /\ req = RequestWithAttachment
    /\ wire # NoWire
    /\ wire.header.XAPIKey = LiveAPIKey
    /\ retErr = NilError

\* C20: once HandleResponse has returned, and so when SendEmail returns,
\* the body of the response the network gave is closed, on every path.
C20_BodyClosedOnReturn ==
    /\ pc \in {"handled", "done"} => ~bodyOpen
    /\ bodyOpen => httpResp # NoHTTPResponse /\ pc \in {"responded", "read"}

C20_Witness ==
    /\ Done
    /\ httpResp # NoHTTPResponse
    /\ handled # NotHandled
    /\ handled.err = NilError
    /\ retErr.kind = "ServerError"
    /\ ~bodyOpen

\* what a call returns, from its own request, its own context, the failure
\* of its own network operation and the response to its own request
OutcomeOfCall(request, context, fault, response) ==
    IF ValidateEmailRequest(request) # NilError
    THEN [resp |-> NilResponse, err |-> ValidateEmailRequest(request)]
    ELSE IF context = "nil"
    THEN [resp |-> NilResponse,
          err |-> NewConnectionError(<<"failed to create request">>,
                                     RawError("net/http: nil Context"))]
    ELSE IF fault.stage = "send"
    THEN [resp |-> NilResponse,
          err |-> NewConnectionError(<<"failed to send request">>, fault.err)]
    ELSE IF fault.stage = "read"
    THEN [resp |-> NilResponse, err |-> HandleResponseReadError(fault.err).err]
    ELSE LET h == HandleResponseBody(response.StatusCode, response.Body) IN
         IF h.err # NilError THEN [resp |-> NilResponse, err |-> h.err]
         ELSE SendEmailParse(h.body)

\* C19: while calls run concurrently the client keeps the API key, the base
\* URL and the HTTP client NewClient gave it; each call sends its own request
\* with them, meets a context error only of its own context, and returns
\* what its own request, context, network failure and response determine.
C19_ConcurrentCallsAreIndependent ==
    calls # NoCalls =>
        /\ client = [nil |-> FALSE, apiKey |-> arg,
                     httpClient |-> [Timeout |-> RequestTimeout],
                     baseURL |-> APIBaseURL]
        /\ \A i \in DOMAIN calls :
               /\ calls[i].wire # NoWire =>
                      /\ calls[i].wire.url = APIBaseURL \o "/v1/email/send"
                      /\ calls[i].wire.header.XAPIKey = arg
                      /\ calls[i].wire.body.f.to = JStr(calls[i].req.To)
               /\ calls[i].fault.err \in {ContextErr(c) : c \in Fired} =>
                      /\ calls[i].ctx \in Fired
                      /\ calls[i].fault.err = ContextErr(calls[i].ctx)
               /\ calls[i].pc = "done" =>
                      [resp |-> calls[i].retResp, err |-> calls[i].retErr] =
                          OutcomeOfCall(calls[i].req, calls[i].ctx,
                                        calls[i].fault, calls[i].httpResp)

C19_Witness ==
    /\ calls # NoCalls
    /\ calls[1].pc = "done"
    /\ calls[1].retErr = NilError
    /\ calls[1].retResp.Data.MessageID = "msg_1"
    /\ calls[2].pc = "replied"
    /\ calls[2].ctx = "canceled"
    /\ calls[2].httpResp.StatusCode = 401

ErrorResponseHandled ==
    /\ Returned
    /\ arg.readErr = NoCause
    /\ ~Is2xx(arg.StatusCode)

\* C22: every error HandleResponse returns for a non-2xx response has a
\* text, Error(), that is not empty.
C22_ErrorMessageNotEmpty ==
    ErrorResponseHandled => ErrorString(out.err) # <<>>

\* C24: HandleResponse takes exactly the statuses 200 to 299 for a success:
\* for them it returns the bytes as read and a nil error, whatever the bytes
\* are; for every other status it returns nil bytes and an error.
C24_SuccessIsExactly2xx ==
    (Returned /\ arg.readErr = NoCause) =>
        IF arg.StatusCode \in 200..299
        THEN out = [body |-> arg.Body, err |-> NilError]
        ELSE out.body = NoBytes /\ out.err # NilError

C24_Witness ==
    /\ Returned
    /\ arg.readErr = NoCause
    /\ arg.StatusCode = 299
    /\ arg.Body = BodyNotJSON
    /\ out.body = BodyNotJSON
    /\ out.err = NilError

\* json.Unmarshal into an ErrorResponse accepts the body: it is null or an
\* object whose error, if any, is null or an object with fields of the
\* types of ErrorDetail
ParsesAsErrorResponse(body) ==
    \/ body.json.k = "null"
    \/ /\ body.json.k = "obj"
       /\ "error" \in DOMAIN body.json.f =>
              \/ body.json.f.error.k = "null"
              \/ /\ body.json.f.error.k = "obj"
                 /\ \A key \in {"code", "message"} \cap
                               DOMAIN body.json.f.error.f :
                        body.json.f.error.f[key].k \in {"str", "null"}
                 /\ "details" \in DOMAIN body.json.f.error.f =>
                        body.json.f.error.f.details.k \in {"obj", "null"}

\* error.message of a body that parses, "" when it is absent
ParsedMessage(body) ==
    IF /\ body.json.k = "obj"
       /\ "error" \in DOMAIN body.json.f
       /\ body.json.f.error.k = "obj"
       /\ "message" \in DOMAIN body.json.f.error.f
       /\ body.json.f.error.f.message.k = "str"
    THEN body.json.f.error.f.message.v
    ELSE ""

\* C25: for a non-2xx response whose body parses as ErrorResponse the
\* message is error.message, or "API request failed with status N" when
\* that is empty, behind "unexpected status code N: " exactly for the
\* statuses below 500 other than 400, 401 and 429.
C25_MessageOfParsedBody ==
    (ErrorResponseHandled /\ ParsesAsErrorResponse(arg.Body)) =>
        LET n == ToString(arg.StatusCode)
            message == IF ParsedMessage(arg.Body) # ""
                       THEN <<ParsedMessage(arg.Body)>>
                       ELSE <<"API request failed with status ", n>>
        IN  out.err.msg =
                IF arg.StatusCode \notin {400, 401, 429}
                       /\ arg.StatusCode < 500
                THEN <<"unexpected status code ", n, ": ">> \o message
                ELSE message

C25_Witness ==
    /\ ErrorResponseHandled
    /\ arg.StatusCode = 401
    /\ arg.Body = BodyError
    /\ out.err.kind = "AuthError"
    /\ out.err.msg = <<"Invalid API key">>

\* C26: for a non-2xx response whose body does not parse as ErrorResponse
\* the message holds both the status code and the text of the body.
C26_FallbackMessageHasStatusAndBody ==
    (ErrorResponseHandled /\ ~ParsesAsErrorResponse(arg.Body)) =>
        /\ \E i \in DOMAIN out.err.msg :
               out.err.msg[i] = ToString(arg.StatusCode)
        /\ arg.Body.text # "" =>
               \E i \in DOMAIN out.err.msg : out.err.msg[i] = arg.Body.text

\* a step of the call that needs nothing from the network
LocalStep ==
    SendEmailValidate \/ MakeRequestDo \/ HandleResponseReturn
        \/ SendEmailReturn

\* C23: with a network operation that eventually ends, in a response, a
\* transport error, the context's error or the client's timeout, every call
\* eventually returns; it can wait only where it waits for the network,
\* in client.Do and in reading the body: everywhere else its next step is
\* enabled.
C23_CallEventuallyReturns ==
    /\ <>Done
    /\ [](pc \in {"start", "validated", "read", "handled"}
              => ENABLED LocalStep)
    /\ [](pc \in {"aborting", "pending", "replied", "responded"}
              => ~ENABLED LocalStep)

C23_Witness ==
    /\ Done
    /\ doCalls = 1
    /\ served = 0
    /\ ctx = "live"
    /\ retErr.kind = "ConnectionError"
    /\ retErr.cause = RawError("Client.Timeout exceeded")

\* MakeRequest was called directly and has returned
MakeRequestReturned == Returned /\ client = NilClient

\* C27: MakeRequest returns a nil response with each of its failures: a
\* ValidationError when the body cannot be encoded and a ConnectionError when
\* the request cannot be built, no request being sent in either case, and a
\* ConnectionError when client.Do fails; the failure is the cause of the
\* error.  Otherwise it returns the response and a nil error.
C27_MakeRequestFailuresByStage ==
    MakeRequestReturned =>
        IF arg.body = Unmarshalable
        THEN /\ out.resp = NoHTTPResponse
             /\ out.err.kind = "ValidationError"
             /\ out.err.cause = RawError("json: unsupported type: chan int")
             /\ wire = NoWire /\ doCalls = 0
        ELSE IF ctx = "nil"
        THEN /\ out.resp = NoHTTPResponse
             /\ out.err.kind = "ConnectionError"
             /\ out.err.cause = RawError("net/http: nil Context")
             /\ wire = NoWire /\ doCalls = 0
        ELSE /\ wire # NoWire /\ doCalls = 1
             /\ \/ /\ out.resp = NoHTTPResponse
                   /\ out.err.kind = "ConnectionError"
                   /\ out.err.cause \in
                          TransportErrors \cup {ContextErr(c) : c \in Fired}
                \/ /\ out.resp # NoHTTPResponse
                   /\ out.resp.StatusCode \in {200, 500}
                   /\ out.err = NilError

C27_Witness ==
    /\ MakeRequestReturned
    /\ arg.body = Unmarshalable
    /\ ctx = "live"
    /\ out.resp = NoHTTPResponse
    /\ out.err.kind = "ValidationError"
    /\ wire = NoWire

\* C28 as stated: a call returns an AuthError exactly when the server
\* answered it with status 401, and a RateLimitError exactly when the server
\* answered it with status 429.
C28_AuthAndRateLimitIffAnswered ==
    Done =>
        /\ retErr.kind = "AuthError" <=>
               (httpResp # NoHTTPResponse /\ httpResp.StatusCode = 401)
        /\ retErr.kind = "RateLimitError" <=>
               (httpResp # NoHTTPResponse /\ httpResp.StatusCode = 429)

\* C28 amended: a call returns an AuthError exactly when it received a
\* response with status 401 and read its body, a RateLimitError exactly when
\* it received a response with status 429 and read its body; an answer of
\* the server that the call did not receive, or whose body it could not
\* read, gives a ConnectionError.
C28_AuthAndRateLimitIffReceived ==
    Done =>
        /\ retErr.kind = "AuthError" <=>
               (BodyWasRead /\ httpResp.StatusCode = 401)
        /\ retErr.kind = "RateLimitError" <=>
               (BodyWasRead /\ httpResp.StatusCode = 429)
        /\ (httpResp # NoHTTPResponse /\ ~BodyWasRead)
               => retErr.kind = "ConnectionError"

C28_Witness ==
    /\ Done
    /\ httpResp # NoHTTPResponse
    /\ httpResp.StatusCode = 429
    /\ readBody = BodyEmpty
    /\ retErr.kind = "RateLimitError"

\* C29: a call with an invalid request and a context that was done before
\* the call returns the ValidationError of the request and a nil response,
\* and hands no request to the HTTP client.
C29_ValidationBeforeContext ==
    (Done /\ firedAt = "before" /\ RequestIsInvalid(req)) =>
        /\ retErr.kind = "ValidationError"
        /\ retErr = ValidateEmailRequest(req)
        /\ retResp = NilResponse
        /\ doCalls = 0
        /\ wire = NoWire

C29_Witness ==
    /\ Done
    /\ firedAt = "before"
    /\ ctx = "canceled"
    /\ req # NilRequest
    /\ req.To = <<"a", "@", "b">>
    /\ retErr.kind = "ValidationError"
    /\ doCalls = 0

\* C30: when reading the body of a response fails, whatever its status,
\* HandleResponse returns nil bytes and a ConnectionError whose cause is the
\* failure, the body is closed, and SendEmail returns that error with a nil
\* response.
C30_ReadFailureIsConnectionError ==
    (HandleResponseReturned /\ ~BodyWasRead) =>
        /\ handled.body = NoBytes
        /\ handled.err.kind = "ConnectionError"
        /\ handled.err.msg = <<"failed to read response body">>
        /\ handled.err.cause \in
               TransportErrors \cup {ContextErr(c) : c \in Fired}
        /\ handled.err.cause \in {ContextErr(c) : c \in Fired}
               => handled.err.cause = ContextErr(ctx)
        /\ ~bodyOpen
        /\ Done
        /\ retErr = handled.err
        /\ retResp = NilResponse

C30_Witness ==
    /\ HandleResponseReturned
    /\ ~BodyWasRead
    /\ httpResp.StatusCode = 200
    /\ httpResp.Body = BodySuccess
    /\ firedAt = "responded"
    /\ retErr.kind = "ConnectionError"
    /\ retErr.cause = ContextErr("deadline")

====
